---- MODULE Spec2Model ----
(***************************************************************************)
(* Model of tmlib.workflow.jterator.handles: the SegmentedObjects handle   *)
(* (label image -> polygons/points -> label image) and the alignment of    *)
(* measurement tables (add_measurement).                                   *)
(*                                                                         *)
(* Conventions: a pixel is <<y, x>> (numpy order, 0-based), a contour or   *)
(* polygon vertex is <<x, y>> (OpenCV / shapely order).                    *)
(***************************************************************************)
EXTENDS Integers, Sequences, FiniteSets, TLC

(***************************************************************************)
(* Generic helpers                                                         *)
(***************************************************************************)
SetMin(S) == CHOOSE m \in S : \A n \in S : m <= n

SetMax(S) == CHOOSE m \in S : \A n \in S : m >= n

Abs(n) == IF n < 0 THEN -n ELSE n

Sign(n) == IF n < 0 THEN -1 ELSE IF n > 0 THEN 1 ELSE 0

Range(s) == {s[i] : i \in 1..Len(s)}

RECURSIVE SortedSeq(_)
\* the elements of a finite set of integers, ascending
SortedSeq(S) ==
    IF S = {} THEN <<>>
    ELSE LET m == SetMin(S) IN <<m>> \o SortedSeq(S \ {m})

SeqRev(s) == [i \in 1..Len(s) |-> s[Len(s) + 1 - i]]

RECURSIVE Flatten(_)
Flatten(ss) == IF ss = <<>> THEN <<>> ELSE Head(ss) \o Flatten(Tail(ss))

(***************************************************************************)
(* Label planes                                                            *)
(* A plane is [h, w, px] with px a function on (0..h-1) \X (0..w-1).       *)
(***************************************************************************)
Pix(h, w) == (0..(h - 1)) \X (0..(w - 1))

\* numpy: plane[0, :] = 0; plane[-1, :] = 0; plane[:, 0] = 0; plane[:, -1] = 0
ZeroBorder(plane) ==
    [plane EXCEPT !.px =
        [p \in DOMAIN plane.px |->
            IF \/ p[1] = 0 \/ p[1] = plane.h - 1
               \/ p[2] = 0 \/ p[2] = plane.w - 1
            THEN 0 ELSE plane.px[p]]]

\* the pixels of a plane that carry a label
PixelsOf(plane, label) == {p \in DOMAIN plane.px : plane.px[p] = label}

PlaneLabels(plane) == {plane.px[p] : p \in DOMAIN plane.px} \ {0}

\* mahotas.labeled.bbox: row `label` is [ymin, ymax + 1, xmin, xmax + 1];
\* a label without pixels has an empty box
bbox(plane, label) ==
    LET P == PixelsOf(plane, label) IN
    IF P = {} THEN <<0, 0, 0, 0>>
    ELSE <<SetMin({p[1] : p \in P}), SetMax({p[1] : p \in P}) + 1,
           SetMin({p[2] : p \in P}), SetMax({p[2] : p \in P}) + 1>>

\* jtlib.utils.extract_bbox_image(plane, bbox, pad=1) followed by
\* mask = obj_im == label: the crop of the box, padded by one background
\* pixel on every side. The mask is [h, w, fg], fg the set of <<x, y>>.
extract_bbox_mask(plane, bb, label) ==
    LET bh == bb[2] - bb[1]
        bw == bb[4] - bb[3]
    IN  [h |-> bh + 2, w |-> bw + 2,
         fg |-> {q \in (1..bw) \X (1..bh) :
                    plane.px[<<bb[1] + q[2] - 1, bb[3] + q[1] - 1>>] = label}]

(***************************************************************************)
(* cv2.findContours(mask, RETR_CCOMP, CHAIN_APPROX_SIMPLE)                 *)
(* Border following of Suzuki and Abe as implemented by OpenCV: one outer  *)
(* border per 8-connected component, one hole border per enclosed          *)
(* 4-connected background region, chain codes in icvCodeDeltas order.      *)
(***************************************************************************)
Delta(s) ==
    CASE s = 0 -> <<1, 0>>   [] s = 1 -> <<1, -1>>
      [] s = 2 -> <<0, -1>>  [] s = 3 -> <<-1, -1>>
      [] s = 4 -> <<-1, 0>>  [] s = 5 -> <<-1, 1>>
      [] s = 6 -> <<0, 1>>   [] s = 7 -> <<1, 1>>

Step(p, s) == <<p[1] + Delta(s)[1], p[2] + Delta(s)[2]>>

Adj8(p, q) == p # q /\ Abs(p[1] - q[1]) <= 1 /\ Abs(p[2] - q[2]) <= 1

Adj4(p, q) == Abs(p[1] - q[1]) + Abs(p[2] - q[2]) = 1

RECURSIVE Grow8(_, _)
Grow8(S, All) ==
    LET N == {q \in All \ S : \E r \in S : Adj8(q, r)}
    IN  IF N = {} THEN S ELSE Grow8(S \cup N, All)

RECURSIVE Grow4(_, _)
Grow4(S, All) ==
    LET N == {q \in All \ S : \E r \in S : Adj4(q, r)}
    IN  IF N = {} THEN S ELSE Grow4(S \cup N, All)

\* first pixel of a set in raster order (top row first, then leftmost)
RasterFirst(S) ==
    LET y == SetMin({p[2] : p \in S})
    IN  <<SetMin({p[1] : p \in {q \in S : q[2] = y}}), y>>

RasterBefore(p, q) == p[2] < q[2] \/ (p[2] = q[2] /\ p[1] < q[1])

RECURSIVE Components8(_)
\* the 8-connected components of a set of pixels, in raster order of their
\* first pixel (the order in which the scan meets them)
Components8(S) ==
    IF S = {} THEN <<>>
    ELSE LET c == Grow8({RasterFirst(S)}, S)
         IN  <<c>> \o Components8(S \ c)

RECURSIVE Components4(_)
Components4(S) ==
    IF S = {} THEN <<>>
    ELSE LET c == Grow4({RasterFirst(S)}, S)
         IN  <<c>> \o Components4(S \ c)

\* the background regions enclosed by foreground (the padding ring of the
\* mask is background and connects everything that is not enclosed)
HoleRegions(mask) ==
    LET bg == ((0..(mask.w - 1)) \X (0..(mask.h - 1))) \ mask.fg
        outside == Grow4({<<0, 0>>}, bg)
    IN  Components4(bg \ outside)

RECURSIVE FirstDir(_, _, _, _)
\* icvFetchContour: do { s = (s - 1) & 7; } while (*i1 == 0 && s != s_end)
FirstDir(fg, i0, s, s_end) ==
    LET s1 == (s + 7) % 8
    IN  IF Step(i0, s1) \in fg \/ s1 = s_end THEN s1
        ELSE FirstDir(fg, i0, s1, s_end)

RECURSIVE NextDir(_, _, _)
\* icvFetchContour: for (;;) { i4 = i3 + deltas[++s]; if (*i4 != 0) break; }
NextDir(fg, i3, s) ==
    LET s1 == (s + 1) % 8
    IN  IF Step(i3, s1) \in fg THEN s1 ELSE NextDir(fg, i3, s1)

RECURSIVE FollowBorder(_, _, _, _, _, _, _)
\* the border following loop of icvFetchContour with CHAIN_APPROX_SIMPLE:
\* a point is written only where the chain code changes
FollowBorder(fg, i0, i1, i3, s, prev_s, pts) ==
    LET s1 == NextDir(fg, i3, s)
        out == IF s1 # prev_s THEN Append(pts, i3) ELSE pts
        i4 == Step(i3, s1)
    IN  IF i4 = i0 /\ i3 = i1 THEN out
        ELSE FollowBorder(fg, i0, i1, i4, (s1 + 4) % 8, s1, out)

icvFetchContour(fg, i0, is_hole) ==
    LET s_end == IF is_hole THEN 0 ELSE 4
        s == FirstDir(fg, i0, s_end, s_end)
    IN  IF s = s_end THEN <<i0>>   \* single pixel domain
        ELSE FollowBorder(fg, i0, Step(i0, s), i0, s, (s + 4) % 8, <<>>)

\* the holes a component encloses: those whose border starts on it
HolesOf(holes, comp) ==
    SelectSeq(holes, LAMBDA r : Step(RasterFirst(r), 4) \in comp)

\* The contours of one component: its outer border, then the borders of
\* the holes it encloses, last found first (cvInsertNodeIntoTree puts a new
\* node at the head of its parent's children). Each contour is
\* [pts, hole, nholes]; nholes counts the children of an outer border.
ComponentContours(fg, comp, mine) ==
    <<[pts |-> icvFetchContour(fg, RasterFirst(comp), FALSE),
       hole |-> FALSE, nholes |-> Len(mine)]>>
    \o SeqRev([i \in 1..Len(mine) |->
                [pts |-> icvFetchContour(fg, Step(RasterFirst(mine[i]), 4),
                                         TRUE),
                 hole |-> TRUE, nholes |-> 0]])

\* all contours in the order cv2 returns them: the components last found
\* first, each followed by its holes
ContourList(fg, comps, holes) ==
    Flatten([i \in 1..Len(comps) |->
                ComponentContours(fg, comps[i], HolesOf(holes, comps[i]))])

\* hierarchy[i] = <<next, previous, first_child, parent>> of RETR_CCOMP,
\* with 0-based indices and -1 for none
Hierarchy(flat, i) ==
    LET n == Len(flat)
        later == {j \in (i + 1)..n : ~flat[j].hole}
        earlier == {j \in 1..(i - 1) : ~flat[j].hole}
    IN  IF flat[i].hole
        THEN <<IF i < n /\ flat[i + 1].hole THEN i ELSE -1,
               IF flat[i - 1].hole THEN i - 2 ELSE -1,
               -1,
               SetMax(earlier) - 1>>
        ELSE <<IF later = {} THEN -1 ELSE SetMin(later) - 1,
               IF earlier = {} THEN -1 ELSE SetMax(earlier) - 1,
               IF flat[i].nholes > 0 THEN i ELSE -1,
               -1>>

WithHierarchy(flat) ==
    [contours |-> [i \in 1..Len(flat) |-> flat[i].pts],
     hierarchy |-> [i \in 1..Len(flat) |-> Hierarchy(flat, i)]]

\* cv2.findContours(mask, cv2.RETR_CCOMP, cv2.CHAIN_APPROX_SIMPLE):
\* [contours, hierarchy]
findContours(mask) ==
    WithHierarchy(ContourList(mask.fg, SeqRev(Components8(mask.fg)),
                              HoleRegions(mask)))

(***************************************************************************)
(* shapely.geometry.Polygon(shell, holes)                                  *)
(* Rings are sequences of integer vertices, closed implicitly. Every edge  *)
(* of a traced contour runs along one of the eight chain-code directions,  *)
(* so the plane region of a polygon is a union of the four triangles into  *)
(* which the diagonals cut each unit cell. A triangle is <<i, j, k>>: cell *)
(* [i, i+1] x [j, j+1], k = 0 top, 1 right, 2 bottom, 3 left; four         *)
(* triangles have area 1.                                                  *)
(***************************************************************************)
RingEdges(ring) ==
    [i \in 1..Len(ring) |-> <<ring[i], ring[(i % Len(ring)) + 1]>>]

\* twice the area enclosed by a ring (shoelace formula)
RECURSIVE Shoelace(_, _)
Shoelace(edges, i) ==
    IF i > Len(edges) THEN 0
    ELSE edges[i][1][1] * edges[i][2][2] - edges[i][2][1] * edges[i][1][2]
         + Shoelace(edges, i + 1)

RingArea2(ring) == Abs(Shoelace(RingEdges(ring), 1))

\* an inner point of a triangle, in coordinates scaled by four
TriPoint(t) ==
    CASE t[3] = 0 -> <<4 * t[1] + 2, 4 * t[2] + 1>>
      [] t[3] = 1 -> <<4 * t[1] + 3, 4 * t[2] + 2>>
      [] t[3] = 2 -> <<4 * t[1] + 2, 4 * t[2] + 3>>
      [] t[3] = 3 -> <<4 * t[1] + 1, 4 * t[2] + 2>>

\* does the ray from point c (scaled by four) towards +x cross the edge?
RayCrosses(e, c) ==
    LET px == 4 * e[1][1]
        py == 4 * e[1][2]
        qx == 4 * e[2][1]
        qy == 4 * e[2][2]
    IN  /\ (py < c[2]) # (qy < c[2])
        /\ IF qy > py
           THEN (c[2] - py) * (qx - px) > (c[1] - px) * (qy - py)
           ELSE (c[2] - py) * (qx - px) < (c[1] - px) * (qy - py)

\* point-in-ring by crossing parity
InsideRing(ring, c) ==
    LET E == RingEdges(ring)
    IN  Cardinality({i \in 1..Len(E) : RayCrosses(E[i], c)}) % 2 = 1

RingXs(ring) == {ring[i][1] : i \in 1..Len(ring)}

RingYs(ring) == {ring[i][2] : i \in 1..Len(ring)}

\* the triangles of the cells between (x0, y0) and (x1, y1)
Tris(x0, x1, y0, y1) == (x0..(x1 - 1)) \X (y0..(y1 - 1)) \X (0..3)

RingRegion(ring) ==
    {t \in Tris(SetMin(RingXs(ring)), SetMax(RingXs(ring)),
                SetMin(RingYs(ring)), SetMax(RingYs(ring))) :
        InsideRing(ring, TriPoint(t))}

\* the interior of a polygon: inside the shell, outside every hole
PolyRegion(shell, holes) ==
    {t \in RingRegion(shell) :
        \A i \in 1..Len(holes) : ~InsideRing(holes[i], TriPoint(t))}

\* two triangles share a side
TriAdj(a, b) ==
    \/ a[1] = b[1] /\ a[2] = b[2] /\ (a[3] - b[3]) % 4 \in {1, 3}
    \/ a[1] = b[1] /\ a[3] = 0 /\ b[3] = 2 /\ b[2] = a[2] - 1
    \/ a[1] = b[1] /\ a[3] = 2 /\ b[3] = 0 /\ b[2] = a[2] + 1
    \/ a[2] = b[2] /\ a[3] = 1 /\ b[3] = 3 /\ b[1] = a[1] + 1
    \/ a[2] = b[2] /\ a[3] = 3 /\ b[3] = 1 /\ b[1] = a[1] - 1

RECURSIVE GrowTri(_, _)
GrowTri(S, All) ==
    LET N == {q \in All \ S : \E r \in S : TriAdj(q, r)}
    IN  IF N = {} THEN S ELSE GrowTri(S \cup N, All)

RECURSIVE TriComponents(_)
\* the connected parts of a region
TriComponents(R) ==
    IF R = {} THEN {}
    ELSE LET c == GrowTri({CHOOSE t \in R : TRUE}, R)
         IN  {c} \cup TriComponents(R \ c)

\* the number of holes of a connected part: the parts of its complement
\* that do not reach the margin around it
PartHoles(part) ==
    LET xs == {t[1] : t \in part}
        ys == {t[2] : t \in part}
        x0 == SetMin(xs) - 1
        y0 == SetMin(ys) - 1
        rest == Tris(x0, SetMax(xs) + 2, y0, SetMax(ys) + 2) \ part
        outside == GrowTri({<<x0, y0, 0>>}, rest)
    IN  Cardinality(TriComponents(rest \ outside))

\* the lattice points a ring passes through, vertex to vertex in unit
\* steps, the closing vertex left out
RECURSIVE EdgePoints(_, _)
EdgePoints(p, q) ==
    IF p = q THEN <<>>
    ELSE <<p>> \o EdgePoints(<<p[1] + Sign(q[1] - p[1]),
                               p[2] + Sign(q[2] - p[2])>>, q)

RingPoints(ring) ==
    Flatten([i \in 1..Len(ring) |->
                EdgePoints(ring[i], ring[(i % Len(ring)) + 1])])

\* the unit segments of a ring, each as a set of its two end points
RingSegments(ring) ==
    LET P == RingPoints(ring)
    IN  {{P[i], P[(i % Len(P)) + 1]} : i \in 1..Len(P)}

\* two unit diagonals of one cell that cross in its middle
DiagonalsCross(a, b) ==
    \E p \in a \cup b :
        LET main == {p, <<p[1] + 1, p[2] + 1>>}
            anti == {<<p[1] + 1, p[2]>>, <<p[1], p[2] + 1>>}
        IN  (a = main /\ b = anti) \/ (a = anti /\ b = main)

SegmentsCross(S, T) == \E a \in S, b \in T : DiagonalsCross(a, b)

\* a simple ring: it passes through no point twice and does not cross itself
RingSimple(ring) ==
    LET P == RingPoints(ring)
    IN  /\ Len(P) >= 3
        /\ Cardinality(Range(P)) = Len(P)
        /\ ~SegmentsCross(RingSegments(ring), RingSegments(ring))

\* shapely's is_valid (OGC simple-feature validity): simple rings, holes
\* inside the shell and outside each other, rings that touch in points
\* only, a connected interior
is_valid(shell, holes) ==
    LET rings == <<shell>> \o holes
        n == Len(rings)
    IN  /\ \A i \in 1..n : RingSimple(rings[i])
        /\ \A i \in 1..n : \A j \in (i + 1)..n :
              /\ RingSegments(rings[i]) \cap RingSegments(rings[j]) = {}
              /\ ~SegmentsCross(RingSegments(rings[i]), RingSegments(rings[j]))
        /\ \A i \in 1..Len(holes) :
              /\ RingRegion(holes[i]) \subseteq RingRegion(shell)
              /\ \A j \in (i + 1)..Len(holes) :
                    RingRegion(holes[i]) \cap RingRegion(holes[j]) = {}
        /\ Cardinality(TriComponents(PolyRegion(shell, holes))) = 1

\* poly.buffer(0): the valid geometry covering the interior of the
\* polygon: one part per connected piece, zero-width pieces dissolved;
\* no part: an empty polygon; several parts: a MultiPolygon
buffer0(shell, holes) == TriComponents(PolyRegion(shell, holes))

(***************************************************************************)
(* The handle's value: [ndim, planes], planes a function from <<t, z>> to  *)
(* a plane. A 2D array has the single plane <<0, 0>>, a 3D array (y, x, z) *)
(* the planes <<0, z>>, a 4D array (y, x, z, t) the planes <<t, z>>.       *)
(***************************************************************************)
\* the plane indices with z in the outer loop and t in the inner one
PlaneKeysByZ(val) ==
    LET ts == SortedSeq({k[1] : k \in DOMAIN val.planes})
        zs == SortedSeq({k[2] : k \in DOMAIN val.planes})
    IN  Flatten([j \in 1..Len(zs) |-> [i \in 1..Len(ts) |-> <<ts[i], zs[j]>>]])

\* the plane indices of the first z level only
PlaneKeysFirstZ(val) ==
    LET ts == SortedSeq({k[1] : k \in DOMAIN val.planes})
    IN  [i \in 1..Len(ts) |-> <<ts[i], 0>>]

\* for t in xrange(array.shape[-1]): for z in xrange(array[..., t].shape[-1])
\* on an array of four dimensions: the plane indices in the order they are
\* yielded
PlaneKeys(val) ==
    LET ts == SortedSeq({k[1] : k \in DOMAIN val.planes})
        zs == SortedSeq({k[2] : k \in DOMAIN val.planes})
    IN  Flatten([i \in 1..Len(ts) |-> [j \in 1..Len(zs) |-> <<ts[i], zs[j]>>]])

\* Image.iterplanes: the error that ends the iteration and the plane
\* indices yielded before it. An array of two dimensions gets two new
\* axes. The test array.shape == 3 compares a tuple with a number and is
\* never true, so an array of three dimensions stays as it is: t runs over
\* its trailing axis, z over its columns, and array[:, :, z, t] has one
\* index too many for it and raises IndexError before a plane is yielded.
\* The planes are views of the array: writing to one writes to the
\* handle's value.
iterplanes(val) ==
    IF val.ndim = 3
    THEN [err |-> "IndexError", keys |-> <<>>]
    ELSE [err |-> "none", keys |-> PlaneKeys(val)]

\* SegmentedObjects.labels: np.unique(self.value[self.value > 0]).tolist()
labels(val) ==
    SortedSeq(UNION {PlaneLabels(val.planes[k]) : k \in DOMAIN val.planes})

(***************************************************************************)
(* SegmentedObjects.to_polygons                                            *)
(***************************************************************************)
\* the closed square [x-1, x+1] x [y-1, y+1] the code builds as a substitute
\* ring; shapely drops the repeated closing vertex
Square(x, y) ==
    <<<<x - 1, y - 1>>, <<x + 1, y - 1>>, <<x + 1, y + 1>>, <<x - 1, y + 1>>>>

\* int(np.mean(v)): the mean of a non-empty set of non-negative integers,
\* truncated
RECURSIVE SetSum(_)
SetSum(S) == IF S = {} THEN 0
             ELSE LET e == CHOOSE e \in S : TRUE IN e + SetSum(S \ {e})

RECURSIVE SeqSum(_)
SeqSum(s) == IF s = <<>> THEN 0 ELSE Head(s) + SeqSum(Tail(s))

\* the truncated mean of coordinate c (1 = y, 2 = x) over a set of pixels
MeanCoord(P, c) ==
    LET ps == SortedSeq({p[1] * 1000 + p[2] : p \in P})
        cs == [i \in 1..Len(ps) |->
                  IF c = 1 THEN ps[i] \div 1000 ELSE ps[i] % 1000]
    IN  SeqSum(cs) \div Len(cs)

\* lengths.index(np.max(lengths)): the 0-based index of the first contour
\* with the most vertices
LongestIdx(contours) ==
    LET m == SetMax({Len(contours[i]) : i \in 1..Len(contours)})
    IN  SetMin({i \in 1..Len(contours) : Len(contours[i]) = m}) - 1

RECURSIVE HierarchyLoop(_, _, _, _)
\* the loop over the contours when more than one is found: the indices of
\* the contour taken as shell and of those collected as holes
HierarchyLoop(fc, i, shell, holes) ==
    IF i >= Len(fc.contours) THEN [shell |-> shell, holes |-> holes]
    ELSE LET child_idx == fc.hierarchy[i + 1][3]
             parent_idx == fc.hierarchy[i + 1][4]
         IN  IF parent_idx >= 0
             THEN HierarchyLoop(fc, i + 1, parent_idx, holes)
             ELSE IF child_idx >= 0
             THEN HierarchyLoop(fc, i + 1, shell, Append(holes, child_idx))
             ELSE [shell |-> LongestIdx(fc.contours), holes |-> holes]

\* the offsets added without turning the y-axis
AddOffsetUnflipped(ring, add_x, add_y) ==
    [i \in 1..Len(ring) |-> <<ring[i][1] + add_x, ring[i][2] + add_y>>]

\* shell[:, 0] = shell[:, 0] + add_x; shell[:, 1] = -1 * (shell[:, 1] + add_y)
AddOffset(ring, add_x, add_y) ==
    [i \in 1..Len(ring) |-> <<ring[i][1] + add_x, -1 * (ring[i][2] + add_y)>>]

RECURSIVE AddOffsetN(_, _, _, _)
\* the in-place update applied n times to one array
AddOffsetN(ring, add_x, add_y, n) ==
    IF n = 0 THEN ring
    ELSE AddOffsetN(AddOffset(ring, add_x, add_y), add_x, add_y, n - 1)

Count(s, e) == Cardinality({i \in 1..Len(s) : s[i] = e})

\* The rings handed to shapely once the shell and the holes are picked.
\* np.squeeze returns views of the contour arrays, so a contour that is
\* both the shell and a hole is updated once per use. A shell that cannot
\* be a polygon (a single point: ndim < 2, or fewer than three vertices) is
\* replaced by a square around the middle of the mask.
PickedRings(mask, fc, sel, add_y, add_x) ==
    IF Len(fc.contours[sel.shell + 1]) < 3
    THEN [err |-> "none",
          shell |-> AddOffset(Square(mask.w \div 2, mask.h \div 2),
                              add_x, add_y),
          holes |-> [i \in 1..Len(sel.holes) |->
                        AddOffsetN(fc.contours[sel.holes[i] + 1],
                                   add_x, add_y, Count(sel.holes, sel.holes[i]))],
          src |-> "center"]
    ELSE [err |-> "none",
          shell |-> AddOffsetN(fc.contours[sel.shell + 1], add_x, add_y,
                               1 + Count(sel.holes, sel.shell)),
          holes |-> [i \in 1..Len(sel.holes) |->
                        AddOffsetN(fc.contours[sel.holes[i] + 1],
                                   add_x, add_y,
                                   Count(sel.holes, sel.holes[i])
                                   + (IF sel.holes[i] = sel.shell
                                      THEN 1 ELSE 0))],
          src |-> "contour"]

\* the substitute for a label without any contour: a square around the
\* mean position of the label in self.value;
\* y, x = np.mean(coords, axis=0).astype(int) needs an array of two
\* dimensions
CentroidRing(val, all, add_y, add_x) ==
    IF val.ndim # 2 \/ all = {}
    THEN [err |-> "ValueError", shell |-> <<>>, holes |-> <<>>,
          src |-> "centroid"]
    ELSE [err |-> "none",
          shell |-> AddOffset(Square(MeanCoord(all, 2), MeanCoord(all, 1)),
                              add_x, add_y),
          holes |-> <<>>, src |-> "centroid"]

\* the branches on len(contours)
ContourRings(val, label, mask, fc, add_y, add_x) ==
    IF Len(fc.contours) = 0
    THEN CentroidRing(val, PixelsOf(val.planes[<<0, 0>>], label),
                      add_y, add_x)
    ELSE PickedRings(mask, fc,
                     IF Len(fc.contours) > 1
                     THEN HierarchyLoop(fc, 0, -1, <<>>)
                     ELSE [shell |-> 0, holes |-> <<>>],
                     add_y, add_x)

MaskRings(val, label, mask, add_y, add_x) ==
    ContourRings(val, label, mask, findContours(mask), add_y, add_x)

\* the rings of one label with the offsets of the bounding box, the pixel
\* of padding not taken off
LabelRingsPadded(val, plane, label, bb, y_offset, x_offset) ==
    MaskRings(val, label, extract_bbox_mask(plane, bb, label),
              y_offset + bb[1], x_offset + bb[3])

\* The rings of one label of a plane: [err, shell, holes, src]; src tells
\* where the shell comes from. add_y = y_offset + bbox[0] - 1,
\* add_x = x_offset + bbox[2] - 1.
LabelRings(val, plane, label, bb, y_offset, x_offset) ==
    MaskRings(val, label, extract_bbox_mask(plane, bb, label),
              y_offset + bb[1] - 1, x_offset + bb[3] - 1)

LargestParts(parts) ==
    {p \in parts : \A q \in parts : Cardinality(q) <= Cardinality(p)}

\* the repaired geometry with all its parts kept, none discarded
MultiPolygonKept(key, r, valid, parts) ==
    [key |-> key, shell |-> r.shell, holes |-> r.holes, src |-> r.src,
     repaired |-> ~valid,
     empty |-> parts = {},
     area4 |-> SetSum({Cardinality(p) : p \in parts}),
     nholes |-> IF valid THEN {Len(r.holes)}
                ELSE {PartHoles(p) : p \in parts}]

\* shapely.geometry.Polygon(shell, holes), repaired with buffer(0) when it
\* is not valid. A repaired geometry is the largest part; of several
\* largest parts shapely's order decides, so the hole counts of all of
\* them are kept. area4 is four times the area.
\* Result: [key, shell, holes, src, repaired, empty, area4, nholes].
RepairedPolygon(key, r, valid, parts) ==
    [key |-> key, shell |-> r.shell, holes |-> r.holes, src |-> r.src,
     repaired |-> ~valid,
     empty |-> parts = {},
     area4 |-> IF parts = {} THEN 0
               ELSE SetMax({Cardinality(p) : p \in parts}),
     nholes |-> IF valid THEN {Len(r.holes)}
                ELSE {PartHoles(p) : p \in LargestParts(parts)}]

LabelPolygon(key, r) ==
    RepairedPolygon(key, r, is_valid(r.shell, r.holes),
                    buffer0(r.shell, r.holes))

RECURSIVE PlanePolygons(_, _, _, _, _, _, _, _)
RECURSIVE AfterLabel(_, _, _, _, _, _, _, _, _)
\* the loop over self.labels for one plane; bboxes are those of the plane
\* before its border was cleared, with one row per label value of the plane
PlanePolygons(val, k, prior, ls, i, y_offset, x_offset, acc) ==
    IF i > Len(ls) THEN [err |-> "none", out |-> acc]
    ELSE IF ls[i] > SetMax(PlaneLabels(prior) \cup {0})
    THEN [err |-> "IndexError", out |-> acc]
    ELSE AfterLabel(val, k, prior, ls, i, y_offset, x_offset, acc,
                    LabelRings(val, val.planes[k], ls[i], bbox(prior, ls[i]),
                               y_offset, x_offset))

AfterLabel(val, k, prior, ls, i, y_offset, x_offset, acc, r) ==
    IF r.err # "none" THEN [err |-> r.err, out |-> acc]
    ELSE PlanePolygons(val, k, prior, ls, i + 1, y_offset, x_offset,
                       Append(acc, LabelPolygon(<<k[1], k[2], ls[i]>>, r)))

\* plane[0, :] = 0 ... on the view that iterplanes hands out
ClearPlane(val, k) ==
    [val EXCEPT !.planes[k] = ZeroBorder(val.planes[k])]

RECURSIVE to_polygons_loop(_, _, _, _, _, _)
RECURSIVE AfterPlane(_, _, _, _, _, _)
\* the loop over the planes: the border of each plane is cleared in the
\* array itself before the labels are read
to_polygons_loop(val, ks, i, y_offset, x_offset, acc) ==
    IF i > Len(ks) THEN [err |-> "none", value |-> val, out |-> acc]
    ELSE AfterPlane(ClearPlane(val, ks[i]), ks, i, y_offset, x_offset,
                    PlanePolygons(ClearPlane(val, ks[i]), ks[i],
                                  val.planes[ks[i]],
                                  labels(ClearPlane(val, ks[i])), 1,
                                  y_offset, x_offset, acc))

AfterPlane(cleared, ks, i, y_offset, x_offset, r) ==
    IF r.err # "none"
    THEN [err |-> r.err, value |-> cleared, out |-> r.out]
    ELSE to_polygons_loop(cleared, ks, i + 1, y_offset, x_offset, r.out)

\* to_polygons consumed to its end: the entries yielded, the error that
\* ended it, and the handle's value afterwards
to_polygons(val, y_offset, x_offset) ==
    IF iterplanes(val).err # "none"
    THEN [err |-> iterplanes(val).err, value |-> val, out |-> <<>>]
    ELSE to_polygons_loop(val, iterplanes(val).keys, 1, y_offset, x_offset,
                          <<>>)

(***************************************************************************)
(* SegmentedObjects.to_points                                              *)
(***************************************************************************)
RECURSIVE PlanePoints(_, _, _, _, _, _, _)
\* the loop over self.labels for one plane: np.mean of no pixel is not a
\* number and int() of it raises
PlanePoints(val, k, ls, i, y_offset, x_offset, acc) ==
    IF i > Len(ls) THEN [err |-> "none", out |-> acc]
    ELSE IF PixelsOf(val.planes[k], ls[i]) = {}
    THEN [err |-> "ValueError", out |-> acc]
    ELSE PlanePoints(val, k, ls, i + 1, y_offset, x_offset,
            Append(acc,
               [key |-> <<k[1], k[2], ls[i]>>,
                point |-> <<MeanCoord(PixelsOf(val.planes[k], ls[i]), 2)
                            + x_offset,
                            -1 * (MeanCoord(PixelsOf(val.planes[k], ls[i]), 1)
                                  + y_offset)>>]))

RECURSIVE to_points_loop(_, _, _, _, _, _)
RECURSIVE AfterPoints(_, _, _, _, _, _)
to_points_loop(val, ks, i, y_offset, x_offset, acc) ==
    IF i > Len(ks) THEN [err |-> "none", value |-> val, out |-> acc]
    ELSE AfterPoints(val, ks, i, y_offset, x_offset,
                     PlanePoints(val, ks[i], labels(val), 1,
                                 y_offset, x_offset, acc))

AfterPoints(val, ks, i, y_offset, x_offset, r) ==
    IF r.err # "none" THEN [err |-> r.err, value |-> val, out |-> r.out]
    ELSE to_points_loop(val, ks, i + 1, y_offset, x_offset, r.out)

to_points(val, y_offset, x_offset) ==
    IF iterplanes(val).err # "none"
    THEN [err |-> iterplanes(val).err, value |-> val, out |-> <<>>]
    ELSE to_points_loop(val, iterplanes(val).keys, 1, y_offset, x_offset,
                        <<>>)

(***************************************************************************)
(* SegmentedObjects.from_polygons                                          *)
(***************************************************************************)
\* skimage._shared.geometry.point_in_polygon: the crossing-number test
\*   ((yp[i] <= y < yp[j]) or (yp[j] <= y < yp[i])) and
\*   x < (xp[j] - xp[i]) * (y - yp[i]) / (yp[j] - yp[i]) + xp[i]
\* with j the vertex before i; the division is cleared exactly
EdgeToggles(pi, pj, x, y) ==
    /\ \/ (pi[2] <= y /\ y < pj[2])
       \/ (pj[2] <= y /\ y < pi[2])
    /\ IF pj[2] > pi[2]
       THEN (x - pi[1]) * (pj[2] - pi[2]) < (pj[1] - pi[1]) * (y - pi[2])
       ELSE (x - pi[1]) * (pj[2] - pi[2]) > (pj[1] - pi[1]) * (y - pi[2])

point_in_polygon(ring, x, y) ==
    LET n == Len(ring)
    IN  Cardinality({i \in 1..n :
            EdgeToggles(ring[i], ring[IF i = 1 THEN n ELSE i - 1], x, y)})
        % 2 = 1

\* skimage.draw.polygon(y, x) without a shape: the pixels <<r, c>> of the
\* bounding box of the vertices, cut at zero from below only, that
\* point_in_polygon accepts
draw_polygon(ring) ==
    LET minr == SetMax({0, SetMin(RingYs(ring))})
        maxr == SetMax(RingYs(ring))
        minc == SetMax({0, SetMin(RingXs(ring))})
        maxc == SetMax(RingXs(ring))
    IN  {p \in (minr..maxr) \X (minc..maxc) :
            point_in_polygon(ring, p[2], p[1])}

\* x -= x_offset; y -= y_offset
SubOffset(ring, y_offset, x_offset) ==
    [i \in 1..Len(ring) |-> <<ring[i][1] - x_offset, ring[i][2] - y_offset>>]

\* np.array(poly.exterior.coords): the shell with its closing vertex
ExteriorCoords(poly) == Append(poly.shell, poly.shell[1])

\* np.zeros(dimensions): the planes of an array of four dimensions
\* <<h, w, nz, nt>>; any other number of dimensions has no planes z, t
Zeros(dimensions) ==
    IF Len(dimensions) = 4
    THEN [k \in (0..(dimensions[4] - 1)) \X (0..(dimensions[3] - 1)) |->
            [h |-> dimensions[1], w |-> dimensions[2],
             px |-> [p \in Pix(dimensions[1], dimensions[2]) |-> 0]]]
    ELSE <<>>

RECURSIVE from_polygons_loop(_, _, _, _, _, _)
RECURSIVE Assign(_, _, _, _, _, _, _)
\* the loop over polygons.iteritems(), in the order the dictionary gives
from_polygons_loop(array, dimensions, polygons, i, y_offset, x_offset) ==
    IF i > Len(polygons) THEN [err |-> "none", array |-> array]
    ELSE Assign(array, dimensions, polygons, i, y_offset, x_offset,
                draw_polygon(SubOffset(ExteriorCoords(polygons[i]),
                                       y_offset, x_offset)))

\* array[y, x, z, t] = label raises for an array that does not have four
\* dimensions and for an index beyond a dimension
Assign(array, dimensions, polygons, i, y_offset, x_offset, yx) ==
    IF \/ Len(dimensions) # 4
       \/ <<polygons[i].key[1], polygons[i].key[2]>> \notin DOMAIN array
       \/ \E p \in yx :
            p \notin Pix(dimensions[1], dimensions[2])
    THEN [err |-> "IndexError", array |-> array]
    ELSE from_polygons_loop(
            [array EXCEPT ![<<polygons[i].key[1], polygons[i].key[2]>>].px =
                [p \in DOMAIN @ |->
                    IF p \in yx THEN polygons[i].key[3] ELSE @[p]]],
            dimensions, polygons, i + 1, y_offset, x_offset)

\* np.squeeze(array): the axes of length one are dropped
Squeeze(array, dimensions) ==
    [ndim |-> Cardinality({i \in 1..Len(dimensions) : dimensions[i] > 1}),
     planes |-> IF Len(dimensions) = 4 THEN array
                ELSE (<<0, 0>> :>
                        [h |-> dimensions[1], w |-> dimensions[2],
                         px |-> [p \in Pix(dimensions[1], dimensions[2])
                                    |-> 0]])]

FromResult(r, dimensions) ==
    [err |-> r.err,
     value |-> IF r.err = "none" THEN Squeeze(r.array, dimensions) ELSE <<>>]

\* from_polygons for the entries of `polygons` in iteration order: the
\* error raised, or the array that becomes the handle's value
from_polygons(polygons, y_offset, x_offset, dimensions) ==
    FromResult(from_polygons_loop(Zeros(dimensions), dimensions, polygons, 1,
                                  y_offset, x_offset), dimensions)

\* array.shape of the handle's value
shape(val) ==
    LET pl == val.planes[CHOOSE k \in DOMAIN val.planes : TRUE]
        nz == Cardinality({k[2] : k \in DOMAIN val.planes})
        nt == Cardinality({k[1] : k \in DOMAIN val.planes})
    IN  CASE val.ndim = 2 -> <<pl.h, pl.w>>
          [] val.ndim = 3 -> <<pl.h, pl.w, nz>>
          [] OTHER -> <<pl.h, pl.w, nz, nt>>

(***************************************************************************)
(* SegmentedObjects.add_measurement                                        *)
(* A pandas.DataFrame is [index, columns, data]: the row labels, the       *)
(* column names and the rows, data[i][j] the value of row i in column j.   *)
(***************************************************************************)
\* np.NaN, apart from every measured value
NaN == -1

\* the rows at the given positions, in that order
Take(val, pos) ==
    [val EXCEPT !.index = [i \in 1..Len(pos) |-> val.index[pos[i]]],
                !.data = [i \in 1..Len(pos) |-> val.data[pos[i]]]]

\* val.loc[label, :] = np.NaN for a label that is not in the index: a new
\* last row
SetNaNRow(val, label) ==
    [val EXCEPT !.index = Append(@, label),
                !.data = Append(@, [j \in 1..Len(val.columns) |-> NaN])]

RECURSIVE AddMissing(_, _, _)
\* for label in self.labels: if label not in val.index: val.loc[label, :] = NaN
AddMissing(val, ls, i) ==
    IF i > Len(ls) THEN val
    ELSE AddMissing(IF ls[i] \in Range(val.index) THEN val
                    ELSE SetNaNRow(val, ls[i]), ls, i + 1)

\* val.sort_index(inplace=True): the rows by label; rows of one label stay
\* in their order (numpy sorts short arrays by insertion)
sort_index(val) ==
    Take(val, [i \in 1..Len(val.index) |->
                 SortedSeq({val.index[k] * 1000 + k :
                               k \in 1..Len(val.index)})[i] % 1000])

\* len(np.unique(val.index)) < len(val.index)
HasDuplicates(s) == Cardinality(Range(s)) < Len(s)

\* of the rows of one label the last is kept
KeepLast(val) ==
    Take(val, SortedSeq({i \in 1..Len(val.index) :
                            \A j \in (i + 1)..Len(val.index) :
                                val.index[j] # val.index[i]}))

\* val[~val.index.duplicated(keep='first')]
KeepFirst(val) ==
    Take(val, SortedSeq({i \in 1..Len(val.index) :
                            \A j \in 1..(i - 1) : val.index[j] # val.index[i]}))

\* no row is dropped
DropNothing(val, ls) == val

\* for i in val.index: if i not in self.labels: val.drop(i, inplace=True)
DropUnknown(val, ls) ==
    Take(val, SortedSeq({i \in 1..Len(val.index) : val.index[i] \in Range(ls)}))

\* The branches on the number of rows: the error raised on the way, the
\* table the checks then see and the table left in the measurement.
\* Missing rows and rows of unknown labels are changed in the argument
\* itself; removing duplicates makes a new table. A row cannot be added to
\* a table in which a row label occurs twice: val.loc[label, :] = np.NaN
\* reindexes the rows and pandas raises ValueError ("cannot reindex from a
\* duplicate axis") before anything is changed.
Reconcile(val, ls) ==
    IF Len(val.index) < Len(ls)
    THEN IF HasDuplicates(val.index)
         THEN [err |-> "ValueError: reindex", val |-> val, arg |-> val]
         ELSE [err |-> "none",
               val |-> sort_index(AddMissing(val, ls, 1)),
               arg |-> sort_index(AddMissing(val, ls, 1))]
    ELSE IF Len(val.index) > Len(ls)
    THEN IF HasDuplicates(val.index)
         THEN [err |-> "none", val |-> KeepFirst(val), arg |-> val]
         ELSE [err |-> "none", val |-> DropUnknown(val, ls),
               arg |-> DropUnknown(val, ls)]
    ELSE [err |-> "none", val |-> val, arg |-> val]

\* self._features[t].append(val) on the defaultdict(list)
AppendFeature(features, t, val) ==
    IF t \in DOMAIN features
    THEN [features EXCEPT ![t] = Append(@, val)]
    ELSE features @@ (t :> <<val>>)

\* np.any(val.index.values != np.array(self.labels)): the comparison is
\* element by element when the lengths agree, an array of one element is
\* compared with every element of the other (with none of them when the
\* other is empty), and arrays of other lengths compare as the single
\* value True
IndexDiffers(index, ls) ==
    IF Len(index) = Len(ls)
    THEN \E i \in 1..Len(ls) : index[i] # ls[i]
    ELSE IF Len(index) = 1
    THEN \E i \in 1..Len(ls) : ls[i] # index[1]
    ELSE IF Len(ls) = 1
    THEN \E i \in 1..Len(index) : index[i] # ls[1]
    ELSE TRUE

RECURSIVE add_measurement_loop(_, _, _, _)
RECURSIVE CheckAndStore(_, _, _, _, _)
\* for t, val in enumerate(measurement.value)
add_measurement_loop(ls, features, tables, t) ==
    IF t >= Len(tables)
    THEN [err |-> "none", features |-> features, tables |-> tables]
    ELSE CheckAndStore(ls, features, tables, t, Reconcile(tables[t + 1], ls))

\* the two checks that raise, then the append
CheckAndStore(ls, features, tables, t, r) ==
    IF r.err # "none"
    THEN [err |-> r.err, features |-> features, tables |-> tables]
    ELSE IF IndexDiffers(r.val.index, ls)
    THEN [err |-> "ValueError: labels", features |-> features,
          tables |-> [tables EXCEPT ![t + 1] = r.arg]]
    ELSE IF HasDuplicates(r.val.columns)
    THEN [err |-> "ValueError: columns", features |-> features,
          tables |-> [tables EXCEPT ![t + 1] = r.arg]]
    ELSE add_measurement_loop(ls, AppendFeature(features, t, r.val),
                              [tables EXCEPT ![t + 1] = r.arg], t + 1)

\* add_measurement(measurement): the error raised, self._features and the
\* tables of the measurement afterwards
add_measurement(val, features, measurement) ==
    IF measurement.type # "Measurement"
    THEN [err |-> "TypeError", features |-> features,
          tables |-> measurement.value]
    ELSE add_measurement_loop(labels(val), features, measurement.value, 0)

(***************************************************************************)
(* Inputs: label images in which each label is one object, a filled        *)
(* rectangle or a rectangular ring (an annulus), as LabelImage promises    *)
(* (connected components with unique labels).                              *)
(***************************************************************************)
Height == 5

Width == 5

BigSide == 7

MaxCalls == 2

NumObjects == 3

MaxRows == 3

YOffsets == {-3, 0, 3}

XOffsets == {0, 1}

\* a shape [y0, y1, x0, x1, t]: the rectangle of rows y0..y1 and columns
\* x0..x1, filled (t = 0) or a ring t pixels thick around a background hole
Shapes(h, w) ==
    {s \in [y0 : 0..(h - 1), y1 : 0..(h - 1),
            x0 : 0..(w - 1), x1 : 0..(w - 1), t : 0..2] :
        /\ s.y0 <= s.y1 /\ s.x0 <= s.x1
        /\ s.t > 0 => (s.y1 - s.y0 >= 2 * s.t /\ s.x1 - s.x0 >= 2 * s.t)}

HolePixels(s) ==
    IF s.t = 0 THEN {}
    ELSE ((s.y0 + s.t)..(s.y1 - s.t)) \X ((s.x0 + s.t)..(s.x1 - s.t))

ShapePixels(s) == ((s.y0..s.y1) \X (s.x0..s.x1)) \ HolePixels(s)

\* a single pixel
Dot(p) == [y0 |-> p[1], y1 |-> p[1], x0 |-> p[2], x1 |-> p[2], t |-> 0]

\* the plane with the given shapes; shapes[i] carries label i
MkPlane(h, w, shapes) ==
    [h |-> h, w |-> w,
     px |-> [p \in Pix(h, w) |->
                LET on == {i \in 1..Len(shapes) : p \in ShapePixels(shapes[i])}
                IN  IF on = {} THEN 0 ELSE SetMax(on)]]

\* one object anywhere in the plane, alone or with a second object of one
\* pixel in the corner or in the middle of the plane
SmallScenes ==
    {MkPlane(Height, Width, <<s>>) : s \in Shapes(Height, Width)}
    \cup
    {MkPlane(Height, Width, <<s, Dot(d)>>) :
        s \in Shapes(Height, Width),
        d \in {<<0, 0>>, <<Height \div 2, Width \div 2>>}}

\* one thick ring in a larger plane
BigScenes ==
    {MkPlane(BigSide, BigSide, <<s>>) :
        s \in {r \in Shapes(BigSide, BigSide) : r.t = 2}}

\* a plane in which the second object does not cover part of the first
Disjoint(plane) ==
    \A l \in PlaneLabels(plane) :
        \E s \in Shapes(plane.h, plane.w) :
            PixelsOf(plane, l) = ShapePixels(s)

Scenes == {pl \in SmallScenes \cup BigScenes :
             Cardinality(PlaneLabels(pl)) >= 1 /\ Disjoint(pl)}

\* a 2D array holding one plane
Array2D(plane) == [ndim |-> 2, planes |-> (<<0, 0>> :> plane)]

\* the orders in which a dictionary may hand out its entries
Orders(s) ==
    {t \in [1..Len(s) -> Range(s)] : \A i, j \in 1..Len(s) :
        t[i] = t[j] => i = j}

\* the planes of the handles that take measurements: no object, or up to
\* NumObjects objects of one pixel, the last of them inside the plane or in
\* its corner
ObjectPlanes ==
    {MkPlane(Height, Width,
             [i \in 1..n |->
                 IF i = n THEN Dot(d) ELSE Dot(<<1, 2 * i - 1>>)]) :
        n \in 0..NumObjects, d \in {<<3, 3>>, <<0, 0>>}}

\* the row labels of a table
Indexes == UNION {[1..n -> 1..NumObjects] : n \in 0..MaxRows}

\* a table of measured values; the value in row i and column j is 10 i + j
Table(index, columns) ==
    [index |-> index, columns |-> columns,
     data |-> [i \in 1..Len(index) |->
                 [j \in 1..Len(columns) |-> 10 * i + j]]]

\* tables of one feature with any row labels, and tables of two columns,
\* equally or differently named, for some of the row labels
Tables ==
    {Table(ix, <<"area">>) : ix \in Indexes}
    \cup {Table(ix, cols) :
            ix \in {<<1, 2>>, <<1, 2, 3>>, <<1, 1, 2>>},
            cols \in {<<"area", "area">>, <<"area", "perimeter">>}}

\* the arguments of add_measurement: a measurement with the table of one
\* time point, or of two, or an object of another type
Measurements ==
    {[type |-> "Measurement", value |-> <<a>>] : a \in Tables}
    \cup {[type |-> "Measurement", value |-> <<a, b>>] :
            a \in {Table(<<1, 2, 3>>, <<"area">>), Table(<<1>>, <<"area">>)},
            b \in {Table(<<1, 2, 3>>, <<"area">>), Table(<<2, 1>>, <<"area">>),
                   Table(<<1, 2, 3>>, <<"area", "area">>)}}
    \cup {[type |-> "DataFrame", value |-> <<Table(<<1>>, <<"area">>)>>]}

(***************************************************************************)
(* The handle                                                              *)
(***************************************************************************)
VARIABLES
    value,       \* self.value, the label array of the handle
    supplied,    \* the array the caller set as the handle's value
    before,      \* self.value when the last call began
    y_offset,    \* the site's global offsets, passed to every call
    x_offset,
    op,          \* the last call
    err,         \* the exception that ended it, or "none"
    out,         \* the entries yielded by to_polygons / to_points
    polygons,    \* the argument of from_polygons, in iteration order
    dimensions,  \* the argument of from_polygons
    features,    \* self._features
    measurement, \* the argument of add_measurement, as the call leaves it
    given,       \* the tables of the argument when it was passed
    ncalls,      \* the number of calls made on the handle
    table,       \* the database table of a model class: rows and row ids
    proc         \* the processes that call get_or_create

vars == <<value, supplied, before, y_offset, x_offset, op, err, out,
          polygons, dimensions, features, measurement, given, ncalls,
          table, proc>>

Init ==
    /\ \E pl \in Scenes :
          /\ value = Array2D(pl)
          /\ supplied = Array2D(pl)
          /\ before = Array2D(pl)
    /\ y_offset \in YOffsets
    /\ x_offset \in XOffsets
    /\ op = "init"
    /\ err = "none"
    /\ out = <<>>
    /\ polygons = <<>>
    /\ dimensions = <<>>
    /\ features = <<>>
    /\ measurement = <<>>
    /\ given = <<>>
    /\ ncalls = 0
    /\ table = [rows |-> {}, seq |-> 0]
    /\ proc = <<>>

\* the handle and the caller's list after a generator has been consumed
Consumed(r, name) ==
    /\ value' = r.value
    /\ err' = r.err
    /\ out' = r.out
    /\ before' = value
    /\ op' = name
    /\ ncalls' = ncalls + 1
    /\ UNCHANGED <<supplied, y_offset, x_offset, polygons, dimensions,
                   features, measurement, given, table, proc>>

\* list(handle.to_polygons(y_offset, x_offset))
ToPolygons ==
    /\ ncalls < MaxCalls
    /\ Consumed(to_polygons(value, y_offset, x_offset), "to_polygons")

\* list(handle.to_points(y_offset, x_offset))
ToPoints ==
    /\ ncalls < MaxCalls
    /\ Consumed(to_points(value, y_offset, x_offset), "to_points")

\* self.value is assigned only when the loop of from_polygons has finished
Rasterized(r, order, dims) ==
    /\ polygons' = order
    /\ dimensions' = dims
    /\ err' = r.err
    /\ value' = IF r.err = "none" THEN r.value ELSE value
    /\ before' = value
    /\ op' = "from_polygons"
    /\ ncalls' = ncalls + 1
    /\ UNCHANGED <<supplied, y_offset, x_offset, out,
                   features, measurement, given, table, proc>>

\* handle.from_polygons(dict(entries), y_offset, x_offset, dims) with the
\* entries to_polygons has just yielded, all of them polygons as built
\* from the contours, and the shape of the plane as dimensions, given as
\* (y, x) or as (y, x, 1, 1)
FromPolygons ==
    /\ ncalls < MaxCalls
    /\ op = "to_polygons" /\ err = "none"
    /\ \A i \in 1..Len(out) : ~out[i].repaired
    /\ \E order \in Orders(out) :
       \E dims \in {<<value.planes[<<0, 0>>].h, value.planes[<<0, 0>>].w>>,
                    <<value.planes[<<0, 0>>].h, value.planes[<<0, 0>>].w,
                      1, 1>>} :
          Rasterized(from_polygons(order, y_offset, x_offset, dims),
                     order, dims)

Next == ToPolygons \/ ToPoints \/ FromPolygons

Spec == Init /\ [][Next]_vars

(***************************************************************************)
(* The handle with its measurements                                        *)
(***************************************************************************)
InitM ==
    /\ \E pl \in ObjectPlanes :
          /\ value = Array2D(pl)
          /\ supplied = Array2D(pl)
          /\ before = Array2D(pl)
    /\ y_offset = 0
    /\ x_offset = 0
    /\ op = "init"
    /\ err = "none"
    /\ out = <<>>
    /\ polygons = <<>>
    /\ dimensions = <<>>
    /\ features = <<>>
    /\ measurement = <<>>
    /\ given = <<>>
    /\ ncalls = 0
    /\ table = [rows |-> {}, seq |-> 0]
    /\ proc = <<>>

\* the handle and the argument after add_measurement has returned or raised
Added(r, m) ==
    /\ features' = r.features
    /\ measurement' = [m EXCEPT !.value = r.tables]
    /\ given' = m.value
    /\ err' = r.err
    /\ before' = value
    /\ op' = "add_measurement"
    /\ ncalls' = ncalls + 1
    /\ UNCHANGED <<value, supplied, y_offset, x_offset, out, polygons,
                   dimensions, table, proc>>

\* handle.add_measurement(m)
AddMeasurement ==
    /\ ncalls < MaxCalls
    /\ \E m \in Measurements : Added(add_measurement(value, features, m), m)

NextM == AddMeasurement \/ ToPolygons

SpecM == InitM /\ [][NextM]_vars

(***************************************************************************)
(* The handle with an array of two, three or four dimensions               *)
(***************************************************************************)
MaxZ == 2

MaxT == 2

\* the planes of the stacks: two objects inside the plane; the first object
\* in the corner of the plane, partly on its outermost row and column; one
\* object only; the first object on the outermost row only
StackPlanes ==
    {MkPlane(Height, Width,
             <<[y0 |-> 1, y1 |-> 2, x0 |-> 1, x1 |-> 2, t |-> 0],
               Dot(<<3, 3>>)>>),
     MkPlane(Height, Width,
             <<[y0 |-> 0, y1 |-> 1, x0 |-> 0, x1 |-> 1, t |-> 0],
               Dot(<<3, 2>>)>>),
     MkPlane(Height, Width, <<Dot(<<2, 2>>)>>),
     MkPlane(Height, Width, <<Dot(<<0, 2>>), Dot(<<3, 3>>)>>)}

\* arrays of shape (y, x), (y, x, z) and (y, x, z, t)
Stacks ==
    {Array2D(pl) : pl \in StackPlanes}
    \cup UNION {{[ndim |-> 3, planes |-> f] :
                   f \in [{0} \X (0..(nz - 1)) -> StackPlanes]} :
                nz \in 1..MaxZ}
    \cup UNION {{[ndim |-> 4, planes |-> f] :
                   f \in [(0..(nt - 1)) \X (0..(nz - 1)) -> StackPlanes]} :
                nz \in 1..MaxZ, nt \in 1..MaxT}

InitS ==
    /\ \E a \in Stacks :
          /\ value = a
          /\ supplied = a
          /\ before = a
    /\ y_offset = 0
    /\ x_offset = 0
    /\ op = "init"
    /\ err = "none"
    /\ out = <<>>
    /\ polygons = <<>>
    /\ dimensions = <<>>
    /\ features = <<>>
    /\ measurement = <<>>
    /\ given = <<>>
    /\ ncalls = 0
    /\ table = [rows |-> {}, seq |-> 0]
    /\ proc = <<>>

\* the pairs (index, plane) that iterplanes yields
Yielded(val, r) ==
    [err |-> r.err, value |-> val,
     out |-> [i \in 1..Len(r.keys) |->
                [key |-> r.keys[i], plane |-> val.planes[r.keys[i]]]]]

\* list(handle.iterplanes())
IterPlanes ==
    /\ ncalls < MaxCalls
    /\ Consumed(Yielded(value, iterplanes(value)), "iterplanes")

\* tmlib.image_utils.find_border_objects(plane): for every label of the
\* plane, whether one of its pixels is in the first or last row or in the
\* first or last column
find_border_objects(plane) ==
    [l \in PlaneLabels(plane) |->
        \E p \in PixelsOf(plane, l) :
            \/ p[1] = 0 \/ p[1] = plane.h - 1
            \/ p[2] = 0 \/ p[2] = plane.w - 1]

\* the keys (t, z, label) of the labels each plane holds
ObjectKeys(val) ==
    UNION {{<<k[1], k[2], l>> : l \in PlaneLabels(val.planes[k])} :
             k \in DOMAIN val.planes}

\* SegmentedObjects.is_border: the mapping built from the planes the handle
\* holds when the property is read
is_border(val) ==
    IF iterplanes(val).err # "none"
    THEN [err |-> iterplanes(val).err, value |-> val, out |-> <<>>]
    ELSE [err |-> "none", value |-> val,
          out |-> [o \in ObjectKeys(val) |->
                     find_border_objects(val.planes[<<o[1], o[2]>>])[o[3]]]]

\* handle.is_border
IsBorder ==
    /\ ncalls < MaxCalls
    /\ Consumed(is_border(value), "is_border")

NextS == IterPlanes \/ ToPolygons \/ ToPoints \/ IsBorder

SpecS == InitS /\ [][NextS]_vars

(***************************************************************************)
(* The handle with single planes drawn pixel by pixel                      *)
(***************************************************************************)
\* the plane with the given rows of labels
Picture(rows) ==
    [h |-> Len(rows), w |-> Len(rows[1]),
     px |-> [p \in Pix(Len(rows), Len(rows[1])) |-> rows[p[1] + 1][p[2] + 1]]]

\* label 1 on the 3 x 3 block inside a plane of 5 x 5
BlockPlane ==
    Picture(<<<<0, 0, 0, 0, 0>>,
              <<0, 1, 1, 1, 0>>,
              <<0, 1, 1, 1, 0>>,
              <<0, 1, 1, 1, 0>>,
              <<0, 0, 0, 0, 0>>>>)

Pictures ==
    {BlockPlane,
     \* two holes side by side
     Picture(<<<<0, 0, 0, 0, 0, 0, 0>>,
               <<0, 1, 1, 1, 1, 1, 0>>,
               <<0, 1, 0, 1, 0, 1, 0>>,
               <<0, 1, 1, 1, 1, 1, 0>>,
               <<0, 0, 0, 0, 0, 0, 0>>>>),
     \* a ring and a bar that the outermost row joins
     Picture(<<<<0, 1, 1, 1, 1, 1, 0>>,
               <<0, 1, 1, 1, 0, 1, 0>>,
               <<0, 1, 0, 1, 0, 1, 0>>,
               <<0, 1, 1, 1, 0, 1, 0>>,
               <<0, 0, 0, 0, 0, 0, 0>>>>),
     \* two bars that the outermost row joins
     Picture(<<<<0, 1, 1, 1, 1, 0>>,
               <<0, 1, 0, 0, 1, 0>>,
               <<0, 1, 0, 0, 1, 0>>,
               <<0, 1, 0, 0, 0, 0>>,
               <<0, 0, 0, 0, 0, 0>>>>),
     \* a line of one pixel with a corner
     Picture(<<<<0, 0, 0, 0, 0>>,
               <<0, 1, 0, 0, 0>>,
               <<0, 1, 0, 0, 0>>,
               <<0, 1, 1, 1, 0>>,
               <<0, 0, 0, 0, 0>>>>),
     \* two blocks that meet in a corner
     Picture(<<<<0, 0, 0, 0, 0, 0>>,
               <<0, 1, 1, 0, 0, 0>>,
               <<0, 1, 1, 0, 0, 0>>,
               <<0, 0, 0, 1, 1, 0>>,
               <<0, 0, 0, 1, 1, 0>>,
               <<0, 0, 0, 0, 0, 0>>>>),
     \* a small and a large block that meet in a corner
     Picture(<<<<0, 0, 0, 0, 0, 0, 0>>,
               <<0, 1, 1, 0, 0, 0, 0>>,
               <<0, 1, 1, 0, 0, 0, 0>>,
               <<0, 0, 0, 1, 1, 1, 0>>,
               <<0, 0, 0, 1, 1, 1, 0>>,
               <<0, 0, 0, 1, 1, 1, 0>>,
               <<0, 0, 0, 0, 0, 0, 0>>>>),
     \* a single pixel
     Picture(<<<<0, 0, 0, 0, 0>>,
               <<0, 0, 0, 0, 0>>,
               <<0, 0, 1, 0, 0>>,
               <<0, 0, 0, 0, 0>>,
               <<0, 0, 0, 0, 0>>>>),
     \* a ring whose hole meets the outside in a corner
     Picture(<<<<0, 0, 0, 0, 0>>,
               <<0, 1, 1, 1, 0>>,
               <<0, 1, 0, 1, 0>>,
               <<0, 1, 1, 0, 0>>,
               <<0, 0, 0, 0, 0>>>>),
     \* a ring and a staircase that the outermost row joins
     Picture(<<<<0, 1, 1, 1, 1, 1, 1, 1, 0>>,
               <<0, 1, 1, 1, 0, 0, 0, 1, 0>>,
               <<0, 1, 0, 1, 0, 0, 1, 1, 0>>,
               <<0, 1, 1, 1, 0, 1, 1, 0, 0>>,
               <<0, 0, 0, 0, 0, 1, 0, 0, 0>>,
               <<0, 0, 0, 0, 0, 0, 0, 0, 0>>>>),
     \* two objects, the second in the hole of the first
     Picture(<<<<0, 0, 0, 0, 0, 0, 0>>,
               <<0, 1, 1, 1, 1, 1, 0>>,
               <<0, 1, 0, 0, 0, 1, 0>>,
               <<0, 1, 0, 2, 0, 1, 0>>,
               <<0, 1, 0, 0, 0, 1, 0>>,
               <<0, 1, 1, 1, 1, 1, 0>>,
               <<0, 0, 0, 0, 0, 0, 0>>>>),
     \* a block without one corner and a ring that the outermost row joins
     Picture(<<<<0, 1, 1, 1, 1, 1, 1, 1, 0>>,
               <<0, 1, 1, 1, 0, 1, 1, 1, 0>>,
               <<0, 1, 1, 1, 0, 1, 0, 1, 0>>,
               <<0, 1, 1, 0, 0, 1, 1, 1, 0>>,
               <<0, 0, 0, 0, 0, 0, 0, 0, 0>>>>),
     \* two holes in walls two pixels thick
     Picture(<<<<0, 0, 0, 0, 0, 0, 0, 0, 0, 0>>,
               <<0, 1, 1, 1, 1, 1, 1, 1, 1, 0>>,
               <<0, 1, 1, 1, 1, 1, 1, 1, 1, 0>>,
               <<0, 1, 1, 0, 1, 1, 0, 1, 1, 0>>,
               <<0, 1, 1, 1, 1, 1, 1, 1, 1, 0>>,
               <<0, 1, 1, 1, 1, 1, 1, 1, 1, 0>>,
               <<0, 0, 0, 0, 0, 0, 0, 0, 0, 0>>>>),
     \* a staircase one pixel wide
     Picture(<<<<0, 0, 0, 0, 0, 0>>,
               <<0, 1, 1, 0, 0, 0>>,
               <<0, 0, 1, 1, 0, 0>>,
               <<0, 0, 0, 1, 1, 0>>,
               <<0, 0, 0, 0, 0, 0>>>>),
     \* a line one pixel wide with a bend
     Picture(<<<<0, 0, 0, 0, 0>>,
               <<0, 1, 0, 1, 0>>,
               <<0, 0, 1, 0, 0>>,
               <<0, 0, 0, 0, 0>>>>)}

InitP ==
    /\ \E pl \in Pictures :
          /\ value = Array2D(pl)
          /\ supplied = Array2D(pl)
          /\ before = Array2D(pl)
    /\ y_offset \in {0, 20}
    /\ x_offset \in {0, 10}
    /\ op = "init"
    /\ err = "none"
    /\ out = <<>>
    /\ polygons = <<>>
    /\ dimensions = <<>>
    /\ features = <<>>
    /\ measurement = <<>>
    /\ given = <<>>
    /\ ncalls = 0
    /\ table = [rows |-> {}, seq |-> 0]
    /\ proc = <<>>

NextP == ToPolygons \/ ToPoints

SpecP == InitP /\ [][NextP]_vars

(***************************************************************************)
(* SQLAlchemy_Session.get_or_create called by several processes, each with *)
(* a session of its own, for one model class whose table has a uniqueness  *)
(* constraint over the keyword arguments. A row is [id, key]; key stands   *)
(* for the keyword arguments. A session sees the rows that are committed.  *)
(***************************************************************************)
NumProcs == 3

\* the keyword arguments the processes may pass
Keys == {"a", "b"}

\* no uniqueness constraint on the table
Unconstrained(rows, key) == FALSE

\* the uniqueness constraint: a row with these values is in the way
Conflicts(rows, key) == \E r \in rows : r.key = key

\* the rows other sessions have inserted and not yet committed
Pending(p) ==
    {proc[q].pending : q \in {q \in DOMAIN proc : q # p /\ proc[q].pc = "commit"}}

\* query(model).filter_by(**kwargs).one() in the session of process p: the
\* row, or the exception raised
one(key) ==
    LET found == {r \in table.rows : r.key = key}
    IN  IF found = {} THEN [err |-> "NoResultFound", row |-> <<>>]
        ELSE IF Cardinality(found) > 1
        THEN [err |-> "MultipleResultsFound", row |-> <<>>]
        ELSE [err |-> "none", row |-> CHOOSE r \in found : TRUE]

\* the table empty or holding a row already; every process about to call
\* get_or_create with keyword arguments of its own choice
InitG ==
    /\ value = <<>> /\ supplied = <<>> /\ before = <<>>
    /\ y_offset = 0 /\ x_offset = 0
    /\ op = "init" /\ err = "none" /\ out = <<>>
    /\ polygons = <<>> /\ dimensions = <<>>
    /\ features = <<>> /\ measurement = <<>> /\ given = <<>>
    /\ ncalls = 0
    /\ table \in {[rows |-> {}, seq |-> 0],
                  [rows |-> {[id |-> 1, key |-> "a"]}, seq |-> 1]}
    /\ proc \in [1..NumProcs ->
                    {[pc |-> "query", key |-> k, pending |-> <<>>,
                      instance |-> <<>>, how |-> "none"] : k \in Keys}]

\* the variables of the handle, which no process touches
handle == <<value, supplied, before, y_offset, x_offset, op, err, out,
            polygons, dimensions, features, measurement, given, ncalls>>

\* instance = self.query(model).filter_by(**kwargs).one(), and the
\* handler of NoResultFound entered when there is no such row
Query(p) ==
    /\ proc[p].pc = "query"
    /\ proc' = [proc EXCEPT ![p] =
          IF one(proc[p].key).err = "none"
          THEN [@ EXCEPT !.pc = "done", !.how = "found",
                         !.instance = one(proc[p].key).row]
          ELSE IF one(proc[p].key).err = "NoResultFound"
          THEN [@ EXCEPT !.pc = "insert"]
          ELSE [@ EXCEPT !.pc = "failed", !.how = one(proc[p].key).err]]
    /\ UNCHANGED <<table, handle>>

\* self._session.add(instance) and the INSERT that commit() flushes: it
\* waits while another session holds an uncommitted row with the same
\* values, and fails with IntegrityError when such a row is committed
Flush(p) ==
    /\ proc[p].pc = "insert"
    /\ ~Conflicts(Pending(p), proc[p].key)
    /\ IF Conflicts(table.rows, proc[p].key)
       THEN /\ proc' = [proc EXCEPT ![p].pc = "rollback"]
            /\ UNCHANGED <<table, handle>>
       ELSE /\ proc' = [proc EXCEPT ![p].pc = "commit",
                                    ![p].pending = [id |-> table.seq + 1,
                                                    key |-> proc[p].key]]
            /\ table' = [table EXCEPT !.seq = @ + 1]
    /\ UNCHANGED handle

\* the COMMIT of self._session.commit()
Commit(p) ==
    /\ proc[p].pc = "commit"
    /\ table' = [table EXCEPT !.rows = @ \cup {proc[p].pending}]
    /\ proc' = [proc EXCEPT ![p].pc = "done", ![p].how = "created",
                            ![p].instance = proc[p].pending,
                            ![p].pending = <<>>]
    /\ UNCHANGED handle

\* except sqlalchemy.exc.IntegrityError: self._session.rollback()
Rollback(p) ==
    /\ proc[p].pc = "rollback"
    /\ proc' = [proc EXCEPT ![p].pc = "requery"]
    /\ UNCHANGED <<table, handle>>

\* the second query, whose exceptions are raised to the caller
Requery(p) ==
    /\ proc[p].pc = "requery"
    /\ proc' = [proc EXCEPT ![p] =
          IF one(proc[p].key).err = "none"
          THEN [@ EXCEPT !.pc = "done", !.how = "refetched",
                         !.instance = one(proc[p].key).row]
          ELSE [@ EXCEPT !.pc = "failed", !.how = one(proc[p].key).err]]
    /\ UNCHANGED <<table, handle>>

NextG ==
    \E p \in 1..NumProcs :
        Query(p) \/ Flush(p) \/ Commit(p) \/ Rollback(p) \/ Requery(p)

SpecG == InitG /\ [][NextG]_vars

(***************************************************************************)
(* Properties                                                              *)
(***************************************************************************)
\* C1: when to_polygons has been consumed, it has raised nothing and has
\* yielded exactly one entry (0, 0, label) for every positive label of the
\* plane the handle held when the call began, objects on the outermost
\* rows and columns included.
C1_OnePolygonPerLabel ==
    op = "to_polygons" =>
        /\ err = "none"
        /\ \A l \in PlaneLabels(before.planes[<<0, 0>>]) :
              Cardinality({i \in 1..Len(out) : out[i].key = <<0, 0, l>>}) = 1

\* C2: for a plane of filled axis-aligned rectangles, none of them on the
\* outermost rows and columns, from_polygons with the entries of
\* to_polygons, the same offsets and the plane's dimensions raises nothing
\* and leaves a value equal to the supplied plane.
C2_RoundTrip ==
    (/\ op = "from_polygons"
     /\ ncalls = 2
     /\ before = supplied
     /\ polygons # <<>>
     /\ \A l \in PlaneLabels(supplied.planes[<<0, 0>>]) :
          LET bb == bbox(supplied.planes[<<0, 0>>], l)
          IN  PixelsOf(supplied.planes[<<0, 0>>], l)
                = (bb[1]..(bb[2] - 1)) \X (bb[3]..(bb[4] - 1)))
    => (err = "none" /\ value = supplied)

\* C3: the local coordinates from_polygons computes (x - x_offset,
\* y - y_offset) for the vertices of a ring that to_polygons traced are
\* the plane-local positions the vertices were traced at: each is a pixel
\* of the ring's label in the plane to_polygons worked on.
C3_LocalInvertsGlobal ==
    op = "from_polygons" =>
        \A i \in 1..Len(polygons) :
            polygons[i].src = "contour" =>
                \A v \in Range(SubOffset(polygons[i].shell,
                                         y_offset, x_offset)) :
                    <<v[2], v[1]>> \in PixelsOf(before.planes[<<0, 0>>],
                                                polygons[i].key[3])

\* C4: every vertex (x, y) of a ring built by to_polygons is the global
\* image of a plane-local position: for a traced ring (x - x_offset,
\* -y - y_offset) is a pixel of the label in the plane worked on, for a
\* substitute square it is within one pixel of the middle of the label's
\* bounding box; and every point of to_points is
\* (mean x + x_offset, -(mean y + y_offset)) of the label's pixels.
C4_GlobalTransform ==
    /\ op = "to_polygons" =>
         \A i \in 1..Len(out) :
            \A v \in Range(out[i].shell)
                     \cup UNION {Range(out[i].holes[j]) :
                                    j \in 1..Len(out[i].holes)} :
               LET bb == bbox(before.planes[<<0, 0>>], out[i].key[3])
               IN  IF out[i].src = "contour"
                   THEN <<-v[2] - y_offset, v[1] - x_offset>>
                          \in PixelsOf(value.planes[<<0, 0>>], out[i].key[3])
                   ELSE /\ Abs(v[1] - x_offset
                               - (bb[3] + (bb[4] - bb[3]) \div 2)) = 1
                        /\ Abs(-v[2] - y_offset
                               - (bb[1] + (bb[2] - bb[1]) \div 2)) = 1
    /\ op = "to_points" =>
         \A i \in 1..Len(out) :
            out[i].point
              = <<MeanCoord(PixelsOf(value.planes[<<0, 0>>], out[i].key[3]), 2)
                    + x_offset,
                  -(MeanCoord(PixelsOf(value.planes[<<0, 0>>],
                                       out[i].key[3]), 1) + y_offset)>>

\* a polygon with a hole has been built from its contours under offsets
\* that are not zero
C4_Witness ==
    /\ op = "to_polygons"
    /\ x_offset # 0 /\ y_offset # 0
    /\ \E i \in 1..Len(out) :
          out[i].src = "contour" /\ Len(out[i].holes) = 1 /\ ~out[i].repaired

\* C5: to_polygons leaves the handle's value as it was when the call began.
C5_ValueUnchanged ==
    op = "to_polygons" => value = before

\* C6: for a plane whose only label is a rectangular ring around a
\* background region, to_polygons yields exactly one polygon, with exactly
\* one hole, and the hole's area is less than the exterior ring's.
C6_AnnulusOneHole ==
    (/\ op = "to_polygons"
     /\ Cardinality(PlaneLabels(before.planes[<<0, 0>>])) = 1
     /\ \E s \in Shapes(before.planes[<<0, 0>>].h, before.planes[<<0, 0>>].w) :
          /\ s.t > 0
          /\ PixelsOf(before.planes[<<0, 0>>], 1) = ShapePixels(s))
    => /\ err = "none"
       /\ Len(out) = 1
       /\ out[1].nholes = {1}
       /\ ~out[1].repaired =>
             RingArea2(out[1].holes[1]) < RingArea2(out[1].shell)

\* C7: after from_polygons, no pixel that lies strictly inside a hole ring
\* of a polygon carries that polygon's label.
C7_HolesExcluded ==
    (op = "from_polygons" /\ err = "none") =>
        \A i \in 1..Len(polygons) :
        \A j \in 1..Len(polygons[i].holes) :
        \A p \in DOMAIN value.planes[<<0, 0>>].px :
            LET ring == SubOffset(polygons[i].holes[j], y_offset, x_offset)
            IN  (/\ InsideRing(ring, <<4 * p[2], 4 * p[1]>>)
                 /\ <<p[2], p[1]>> \notin Range(RingPoints(ring)))
                => value.planes[<<0, 0>>].px[p] # polygons[i].key[3]

\* C8: after from_polygons, a pixel that several polygons cover carries
\* the label of the one with the greatest key, whatever the order in which
\* the mapping handed out its entries.
C8_AscendingWriteOrder ==
    (op = "from_polygons" /\ err = "none") =>
        \A p \in DOMAIN value.planes[<<0, 0>>].px :
            LET on == {i \in 1..Len(polygons) :
                          p \in draw_polygon(
                                  SubOffset(ExteriorCoords(polygons[i]),
                                            y_offset, x_offset))}
            IN  on # {} =>
                  value.planes[<<0, 0>>].px[p]
                    = SetMax({polygons[i].key[3] : i \in on})

\* C9: from_polygons, given dimensions (y, x, z, t), raises nothing,
\* whatever lies outside the array, and the array it leaves has the y and
\* x dimensions that were passed.
C9_DimensionsAndClipping ==
    (op = "from_polygons" /\ Len(dimensions) = 4) =>
        /\ err = "none"
        /\ shape(value)[1] = dimensions[1]
        /\ shape(value)[2] = dimensions[2]

\* C10: for a handle with the labels 1, 2, 3 and a table with the row
\* labels 1, 1, 2, add_measurement raises nothing and stores a table with
\* the row labels 1, 2, 3 whose row of label 1 is the first row passed and
\* whose row of label 3 is not-a-number throughout.
C10_ReconciledExample ==
    (/\ op = "add_measurement"
     /\ labels(value) = <<1, 2, 3>>
     /\ Len(given) = 1
     /\ given[1].index = <<1, 1, 2>>
     /\ ~HasDuplicates(given[1].columns))
    => /\ err = "none"
       /\ 0 \in DOMAIN features
       /\ LET val == features[0][Len(features[0])]
          IN  /\ val.index = <<1, 2, 3>>
              /\ val.data[1] = given[1].data[1]
              /\ \A j \in 1..Len(val.columns) : val.data[3][j] = NaN

\* C11: when the first table passed to add_measurement has fewer rows than
\* the handle has labels, the table the call leaves has one row of
\* not-a-number for every label that was missing, is sorted ascending by
\* label, and holds the rows that were passed with their values.
C11_MissingRowsAdded ==
    (/\ op = "add_measurement"
     /\ measurement.type = "Measurement"
     /\ Len(given[1].index) < Len(labels(value)))
    => LET a == given[1]
           b == measurement.value[1]
           missing == Range(labels(value)) \ Range(a.index)
       IN  /\ b.columns = a.columns
           /\ Len(b.index) = Len(a.index) + Cardinality(missing)
           /\ \A l \in missing :
                \A i \in 1..Len(b.index) :
                    b.index[i] = l =>
                        \A j \in 1..Len(b.columns) : b.data[i][j] = NaN
           /\ \A l \in missing : \E i \in 1..Len(b.index) : b.index[i] = l
           /\ \A i \in 1..(Len(b.index) - 1) : b.index[i] <= b.index[i + 1]
           /\ \A l \in Range(a.index) :
                {b.data[i] : i \in {k \in 1..Len(b.index) : b.index[k] = l}}
                  = {a.data[i] : i \in {k \in 1..Len(a.index) : a.index[k] = l}}

\* C12: when the first table has more rows than the handle has labels and
\* a row label occurs twice, the table that add_measurement stores holds,
\* for every label, the first of the rows passed for it and no other.
C12_FirstOccurrenceKept ==
    (/\ op = "add_measurement"
     /\ err = "none"
     /\ Len(given[1].index) > Len(labels(value))
     /\ HasDuplicates(given[1].index))
    => LET a == given[1]
           b == features[0][Len(features[0])]
       IN  /\ ~HasDuplicates(b.index)
           /\ Range(b.index) = Range(a.index)
           /\ \A i \in 1..Len(b.index) :
                b.data[i]
                  = a.data[SetMin({k \in 1..Len(a.index) :
                                      a.index[k] = b.index[i]})]

\* the rows 1, 1, 2 have been stored as the rows 1, 2 for the labels 1, 2
C12_Witness ==
    /\ op = "add_measurement"
    /\ err = "none"
    /\ labels(value) = <<1, 2>>
    /\ given[1].index = <<1, 1, 2>>
    /\ features[0][Len(features[0])].index = <<1, 2>>

\* C13: when the first table has more rows than the handle has labels and
\* no row label occurs twice, the table the call leaves holds exactly the
\* rows passed whose label is a label of the handle, unchanged and in the
\* order passed.
C13_UnknownRowsDropped ==
    (/\ op = "add_measurement"
     /\ measurement.type = "Measurement"
     /\ Len(given[1].index) > Len(labels(value))
     /\ ~HasDuplicates(given[1].index))
    => LET a == given[1]
           b == measurement.value[1]
           kept == SortedSeq({k \in 1..Len(a.index) :
                                 a.index[k] \in Range(labels(value))})
       IN  /\ b.columns = a.columns
           /\ b.index = [i \in 1..Len(kept) |-> a.index[kept[i]]]
           /\ b.data = [i \in 1..Len(kept) |-> a.data[kept[i]]]

\* the rows 1, 2, 3 have been stored as the rows 1, 2 for the labels 1, 2
C13_Witness ==
    /\ op = "add_measurement"
    /\ err = "none"
    /\ labels(value) = <<1, 2>>
    /\ given[1].index = <<1, 2, 3>>
    /\ features[0][Len(features[0])].index = <<1, 2>>

\* the tables stored for time point t
Stored(fs, t) == IF t \in DOMAIN fs THEN fs[t] ELSE <<>>

\* C14: a call of add_measurement with a measurement either appends, for a
\* time point, one table whose row labels are the labels of the handle in
\* ascending order, or stores nothing for it and raises ValueError.
C14_StoredOnlyIfLabelsMatch ==
    [][(op' = "add_measurement" /\ measurement'.type = "Measurement") =>
          \A t \in 0..(Len(given') - 1) :
              \/ /\ Len(Stored(features', t)) = Len(Stored(features, t)) + 1
                 /\ Stored(features', t)[Len(Stored(features', t))].index
                      = labels(value)
              \/ /\ Stored(features', t) = Stored(features, t)
                 /\ err' \in {"ValueError: labels", "ValueError: columns",
                              "ValueError: reindex"}]_vars

\* C15: a table passed to add_measurement with a column name that occurs
\* twice is refused for its column names, and is refused before a row of it
\* has been added, dropped or moved.
C15_ColumnsCheckedFirst ==
    (/\ op = "add_measurement"
     /\ measurement.type = "Measurement"
     /\ HasDuplicates(given[1].columns))
    => /\ err = "ValueError: columns"
       /\ measurement.value[1] = given[1]

\* the plane indices in the order a call of iterplanes has yielded them
YieldedKeys(o) == [i \in 1..Len(o) |-> o[i].key]

\* C16: on an array of four dimensions iterplanes raises nothing and yields
\* every plane index (t, z) of the array exactly once, each with the plane
\* array[:, :, z, t]; a second call yields the same indices in the same
\* order.
C16_EveryPlaneOnce ==
    /\ [](op = "iterplanes" /\ value.ndim = 4 =>
            /\ err = "none"
            /\ Len(out) = Cardinality(DOMAIN value.planes)
            /\ \A k \in DOMAIN value.planes :
                  \E i \in 1..Len(out) :
                      /\ out[i].key = k
                      /\ out[i].plane = value.planes[k]
            /\ \A i \in 1..Len(out) : out[i].key \in DOMAIN value.planes)
    /\ [][(op = "iterplanes" /\ op' = "iterplanes" /\ value.ndim = 4)
            => YieldedKeys(out') = YieldedKeys(out)]_vars

\* an array of two time points and two z levels, all four planes yielded
\* twice in a row
C16_Witness ==
    /\ op = "iterplanes"
    /\ ncalls = 2
    /\ before = value
    /\ value.ndim = 4
    /\ YieldedKeys(out) = <<<<0, 0>>, <<0, 1>>, <<1, 0>>, <<1, 1>>>>
    /\ value.planes[<<0, 1>>] # value.planes[<<1, 0>>]

\* C17: on an array of two dimensions iterplanes yields the one plane
\* (0, 0); on an array of three dimensions it raises nothing and yields the
\* plane (0, z) for every index z of the trailing dimension.
C17_TwoAndThreeDimensions ==
    (op = "iterplanes" /\ value.ndim \in {2, 3}) =>
        /\ err = "none"
        /\ YieldedKeys(out) = PlaneKeys(value)
        /\ \A i \in 1..Len(out) :
              /\ out[i].key[1] = 0
              /\ out[i].plane = value.planes[out[i].key]

\* C18: a call of to_polygons that follows a call of to_polygons on the
\* same handle, with the same offsets, ends the same way and yields the
\* same keys with the same polygons.
C18_SecondCallSame ==
    [][(op = "to_polygons" /\ op' = "to_polygons") =>
          (err' = err /\ out' = out)]_vars

\* the order of the keys (t, z, label)
KeyBefore(a, b) ==
    \/ a[1] < b[1]
    \/ a[1] = b[1] /\ a[2] < b[2]
    \/ a[1] = b[1] /\ a[2] = b[2] /\ a[3] < b[3]

\* C19: the keys (t, z, label) that to_polygons yields are strictly
\* ascending, first by t, then by z, then by label, and none of them has
\* the label 0.
C19_KeysAscending ==
    op = "to_polygons" =>
        /\ \A i \in 1..(Len(out) - 1) : KeyBefore(out[i].key, out[i + 1].key)
        /\ \A i \in 1..Len(out) : out[i].key[3] # 0

\* two time points, two z levels and two objects in every plane
C19_Witness ==
    /\ op = "to_polygons"
    /\ err = "none"
    /\ [i \in 1..Len(out) |-> out[i].key]
         = <<<<0, 0, 1>>, <<0, 0, 2>>, <<0, 1, 1>>, <<0, 1, 2>>,
             <<1, 0, 1>>, <<1, 0, 2>>, <<1, 1, 1>>, <<1, 1, 2>>>>

\* C20: is_border leaves the image as it is and maps every label of every
\* plane of the image as supplied to whether that label has a pixel on the
\* outermost rows or columns of the supplied plane, whatever has been
\* called on the handle before.
C20_BorderOfSuppliedPlane ==
    (op = "is_border" /\ value.ndim # 3) =>
        /\ err = "none"
        /\ value = before
        /\ DOMAIN out = ObjectKeys(supplied)
        /\ \A o \in ObjectKeys(supplied) :
              out[o] = (\E p \in PixelsOf(supplied.planes[<<o[1], o[2]>>],
                                          o[3]) :
                          \/ p[1] = 0 \/ p[1] = Height - 1
                          \/ p[2] = 0 \/ p[2] = Width - 1)

\* the first call on the block of 3 x 3 with the offsets (10, 20)
BlockScenario ==
    /\ op = "to_polygons"
    /\ before = Array2D(BlockPlane)
    /\ supplied = before
    /\ x_offset = 10
    /\ y_offset = 20

\* C21 as stated: in the scenario to_polygons yields one polygon whose
\* exterior ring spans x in [11, 13] and y in [-24, -22].
C21_BlockAsStated ==
    BlockScenario =>
        /\ err = "none"
        /\ Len(out) = 1
        /\ RingXs(out[1].shell) \subseteq 11..13
        /\ {11, 13} \subseteq RingXs(out[1].shell)
        /\ RingYs(out[1].shell) \subseteq -24..-22
        /\ {-24, -22} \subseteq RingYs(out[1].shell)

\* C21 amended: in the scenario to_polygons yields one polygon whose
\* exterior ring spans x in [11, 13] and y in [-23, -21], the rows 1..3
\* moved by the offset 20 and turned over.
C21_BlockScenario ==
    BlockScenario =>
        /\ err = "none"
        /\ Len(out) = 1
        /\ out[1].key = <<0, 0, 1>>
        /\ RingXs(out[1].shell) \subseteq 11..13
        /\ {11, 13} \subseteq RingXs(out[1].shell)
        /\ RingYs(out[1].shell) \subseteq -23..-21
        /\ {-23, -21} \subseteq RingYs(out[1].shell)
        /\ out[1].holes = <<>>

C21_Witness == BlockScenario /\ Len(out) = 1 /\ out[1].src = "contour"

\* C22: to_points raises nothing and yields, for every plane and every
\* label the plane holds, one point with the key (t, z, label) at the mean
\* position of the pixels of the label in the plane, taken to whole
\* numbers, moved by the offsets and with the y-axis turned over.
C22_OnePointPerLabel ==
    (op = "to_points" /\ value.ndim # 3) =>
        /\ err = "none"
        /\ Len(out) = Cardinality(ObjectKeys(value))
        /\ \A o \in ObjectKeys(value) :
              \E i \in 1..Len(out) :
                  /\ out[i].key = o
                  /\ out[i].point
                       = <<MeanCoord(PixelsOf(value.planes[<<o[1], o[2]>>],
                                              o[3]), 2) + x_offset,
                           -1 * (MeanCoord(PixelsOf(
                                    value.planes[<<o[1], o[2]>>], o[3]), 1)
                                 + y_offset)>>

\* C23: whatever the order in which the processes take their steps, the
\* table never holds two rows with the same keyword arguments, no call of
\* get_or_create fails, and every call that has returned has returned the
\* one committed row with its keyword arguments.
C23_OneRowForAll ==
    /\ \A r, q \in table.rows : r.key = q.key => r = q
    /\ \A p \in DOMAIN proc :
          /\ proc[p].pc # "failed"
          /\ proc[p].pc = "done" =>
                /\ proc[p].instance \in table.rows
                /\ proc[p].instance.key = proc[p].key

\* three processes with the same keyword arguments on an empty table: one
\* has inserted the row, one has run into IntegrityError and fetched the
\* row, one has found it at once
C23_Witness ==
    /\ DOMAIN proc = 1..NumProcs
    /\ \A p \in DOMAIN proc : proc[p].pc = "done" /\ proc[p].key = "b"
    /\ {proc[p].how : p \in DOMAIN proc} = {"created", "refetched", "found"}
    /\ Cardinality(table.rows) = 1

\* C24: when to_polygons comes to a label of a plane and the plane, its
\* outermost rows and columns cleared, has no pixel of the label left, it
\* yields for the label a square without holes around the mean position of
\* the label's pixels in the plane as supplied.
C24_SquareAtMeanPosition ==
    (op = "to_polygons" /\ before = supplied /\ value.ndim # 3) =>
        \A o \in ObjectKeys(before) :
            (/\ o[3] \in Range(labels(value))
             /\ PixelsOf(value.planes[<<o[1], o[2]>>], o[3]) = {})
            => \E i \in 1..Len(out) :
                  /\ out[i].key = o
                  /\ out[i].holes = <<>>
                  /\ out[i].shell
                       = AddOffset(
                           Square(MeanCoord(PixelsOf(
                                      before.planes[<<o[1], o[2]>>], o[3]), 2),
                                  MeanCoord(PixelsOf(
                                      before.planes[<<o[1], o[2]>>], o[3]), 1)),
                           x_offset, y_offset)

\* C25: when the pixels a label keeps after the border is cleared fall into
\* several separate pieces, so that contours lie side by side, to_polygons
\* raises nothing and yields one polygon for the label, and every ring it
\* has taken as a hole of the polygon lies inside the exterior ring.
C25_SiblingContours ==
    (op = "to_polygons" /\ before = supplied) =>
        \A l \in Range(labels(value)) :
            Len(Components8(PixelsOf(value.planes[<<0, 0>>], l))) >= 2
            => /\ err = "none"
               /\ Cardinality({i \in 1..Len(out) : out[i].key[3] = l}) = 1
               /\ \A i \in 1..Len(out) :
                     out[i].key[3] = l =>
                        \A j \in 1..Len(out[i].holes) :
                            RingRegion(out[i].holes[j])
                              \subseteq RingRegion(out[i].shell)

C27_OneRingPerHole ==
    (op = "to_polygons" /\ before = supplied /\ err = "none") =>
        \A i \in 1..Len(out) :
            LET plane == value.planes[<<0, 0>>]
                l == out[i].key[3]
                bb == bbox(plane, l)
                mask == extract_bbox_mask(plane, bb, l)
            IN  Len(Components8(PixelsOf(plane, l))) = 1
                => /\ Len(out[i].holes) = Len(HoleRegions(mask))
                   /\ out[i].src = "contour"
                      => out[i].shell
                           = AddOffset(findContours(mask).contours[1],
                                       x_offset + bb[3] - 1,
                                       y_offset + bb[1] - 1)

\* C28: on a stack of four dimensions to_points and to_polygons run to the end
\* without an error, and the labels of the entries yielded for a plane
\* (t, z) are exactly the labels present in that plane (for to_polygons: in
\* the plane with its border cleared), whatever labels the other planes hold.
C28_LabelsPerPlane ==
    (op \in {"to_points", "to_polygons"} /\ before = supplied
     /\ supplied.ndim = 4) =>
        /\ err = "none"
        /\ \A k \in DOMAIN supplied.planes :
              {out[i].key[3] : i \in {j \in 1..Len(out) :
                                        /\ out[j].key[1] = k[1]
                                        /\ out[j].key[2] = k[2]}}
                = PlaneLabels(IF op = "to_polygons"
                              THEN ZeroBorder(supplied.planes[k])
                              ELSE supplied.planes[k])

\* C29: a call of add_measurement that raises leaves the stored features as
\* they were when the call began, and leaves the tables of its argument as
\* they were passed.
C29_AllOrNothing ==
    [][(op' = "add_measurement" /\ err' # "none")
       => (features' = features /\ measurement'.value = given')]_vars

\* C30: whatever calls have been made on the handle, every table stored in
\* its features has as row labels the handle's current labels, ascending and
\* without repetition.
C30_TablesMatchLabels ==
    \A t \in DOMAIN features :
        \A i \in 1..Len(features[t]) :
            features[t][i].index = labels(value)

====
